---- MODULE Spec2Model ----
(***************************************************************************)
(* Text relay pipeline of lhan-api: request validation, pre-consume,       *)
(* dispatch, settlement and the deferred refund (relay/relay-text.go).     *)
(* Decimal quantities of the quota computation are kept exact: every float *)
(* ratio or price is a numerator over RatioScale, and products carry the   *)
(* product of the scales, as shopspring/decimal multiplication does.       *)
(* Scope: requests served by a non-audio model (the gpt-4o-audio           *)
(* branch of TextHelper calls a settlement routine outside this file).     *)
(***************************************************************************)
EXTENDS Integers, Sequences, FiniteSets, TLC

\* ------------------------------------------------------------------ bounds
MaxPreConsume == 2
MaxTokens == 2
MaxCalls == 1

\* --------------------------------------------------------------- constants
MaxInt32 == 2147483647
QuotaPerUnit == 500000
RatioScale == 10
StatusOK == 200
StatusBadRequest == 400
StatusForbidden == 403
StatusInternalServerError == 500

\* ------------------------------------------------------------------ errors
\* A nil error, and the envelope built by service.OpenAIErrorWrapper(Local).
NoErr == [code |-> "", status |-> 0, msg |-> ""]
OpenAIErrorWrapper(msg, code, status) == [code |-> code, status |-> status, msg |-> msg]

\* --------------------------------------------------------------- validator
RelayModes == {"chat", "completions", "embeddings", "moderations", "edits"}

MaxTokensLimitOff(maxTokens) == maxTokens > (MaxInt32 \div 2) + 1
MaxTokensInvalid(maxTokens) == maxTokens > MaxInt32 \div 2

\* The model name after the per-mode defaults of lines 37-42.
DefaultedModel(r) ==
    IF r.mode = "moderations" /\ r.model = "" THEN "text-moderation-latest"
    ELSE IF r.mode = "embeddings" /\ r.model = "" THEN r.pathModel
    ELSE r.model

\* Error message of getAndValidateTextRequest, "" when the request is accepted.
getAndValidateTextRequest(r) ==
    IF ~r.bodyOk THEN "unmarshal failed"
    ELSE IF MaxTokensInvalid(r.maxTokens) THEN "max_tokens is invalid"
    ELSE IF DefaultedModel(r) = "" THEN "model is required"
    ELSE IF r.mode = "completions" /\ r.prompt = "" THEN "field prompt is required"
    ELSE IF r.mode = "chat" /\ r.messages = 0 THEN "field messages is required"
    ELSE IF r.mode = "moderations" /\ r.input \in {"nil", ""} THEN "field input is required"
    ELSE IF r.mode = "edits" /\ r.instruction = "" THEN "field instruction is required"
    ELSE ""

\* getPromptTokens: the token counter is called for four modes only.
getPromptTokens(mode, counterOk, n) ==
    IF mode \in {"chat", "completions", "moderations", "embeddings"}
    THEN [tokens |-> IF counterOk THEN n ELSE 0,
          err |-> IF counterOk THEN "" ELSE "count failed"]
    ELSE [tokens |-> 0, err |-> "unknown relay mode"]

\* ------------------------------------------------------------ quota ledger
\* The external store: one debit or credit either applies or fails whole.
PreConsumeTokenQuota(balance, quota, ok) == IF ok THEN balance - quota ELSE balance
DecreaseUserQuota(balance, quota, ok) == IF ok THEN balance - quota ELSE balance
PostConsumeQuota(balance, quota, ok) == IF ok THEN balance - quota ELSE balance

\* ------------------------------------------------------------- pre-consume
InsufficientNoCheck(userQuota, pre) == userQuota <= 0
InsufficientUserQuota(userQuota, pre) == userQuota <= 0 \/ userQuota - pre < 0

TrustedUserOnly(userQuota, unlimited, tokenQuota, pre) == userQuota > 100 * pre
Trusted(userQuota, unlimited, tokenQuota, pre) ==
    /\ userQuota > 100 * pre
    /\ (unlimited \/ tokenQuota > 100 * pre)

\* The HTTP status preConsumeQuota gives each of its errors (lines 313-347).
PreConsumeStatusAllForbidden(code) == StatusForbidden
PreConsumeStatus(code) ==
    IF code \in {"get_user_quota_failed", "decrease_user_quota_failed"}
    THEN StatusInternalServerError
    ELSE StatusForbidden

\* preConsumeQuota: user and tok are the ledger balances, ctxTok the token_quota
\* context value; readOk, tokOk, userOk the outcomes of the three ledger calls.
preConsumeQuota(user, tok, ctxTok, unlimited, want, readOk, tokOk, userOk) ==
    LET pre == IF Trusted(user, unlimited, ctxTok, want) THEN 0 ELSE want
        same == [user |-> user, tok |-> tok, pre |-> 0, userQuota |-> 0]
    IN  IF ~readOk THEN
            same @@ [err |-> OpenAIErrorWrapper("store read failed", "get_user_quota_failed", PreConsumeStatus("get_user_quota_failed"))]
        ELSE IF InsufficientUserQuota(user, want) THEN
            same @@ [err |-> OpenAIErrorWrapper("user quota is not enough", "insufficient_user_quota", PreConsumeStatus("insufficient_user_quota"))]
        ELSE IF pre > 0 /\ ~tokOk THEN
            same @@ [err |-> OpenAIErrorWrapper("token debit failed", "pre_consume_token_quota_failed", PreConsumeStatus("pre_consume_token_quota_failed"))]
        ELSE IF pre > 0 /\ ~userOk THEN
            [user |-> user, tok |-> PreConsumeTokenQuota(tok, pre, TRUE), pre |-> 0,
             userQuota |-> 0,
             err |-> OpenAIErrorWrapper("user debit failed", "decrease_user_quota_failed", PreConsumeStatus("decrease_user_quota_failed"))]
        ELSE IF pre > 0 THEN
            [user |-> DecreaseUserQuota(user, pre, TRUE),
             tok |-> PreConsumeTokenQuota(tok, pre, TRUE),
             pre |-> pre, userQuota |-> user, err |-> NoErr]
        ELSE [user |-> user, tok |-> tok, pre |-> pre, userQuota |-> user, err |-> NoErr]

\* ------------------------------------------------------------ final charge
\* decimal.Round(0): half away from zero, of numerator n over denominator d.
Round0(n, d) ==
    IF n >= 0 THEN (2 * n + d) \div (2 * d) ELSE 0 - ((2 * (0 - n) + d) \div (2 * d))

DecScale == RatioScale * RatioScale * RatioScale

\* Built-in tool charge, numerator over DecScale:
\* price * calls / 1000 * groupRatio * QuotaPerUnit.
ToolQuota(price, calls, group) ==
    IF calls > 0
    THEN price * calls * group * ((QuotaPerUnit * RatioScale) \div 1000)
    ELSE 0

PromptQuotaCacheAlways(u, p) ==
    (u.PromptTokens - u.CachedTokens) * RatioScale + u.CachedTokens * p.CacheRatio
\* Prompt quota, numerator over RatioScale.
PromptQuota(u, p) ==
    IF u.ImageTokens > 0
    THEN (u.PromptTokens - u.ImageTokens) * RatioScale + u.ImageTokens * p.ImageRatio
    ELSE (u.PromptTokens - u.CachedTokens) * RatioScale + u.CachedTokens * p.CacheRatio

\* quotaCalculateDecimal before the tool charges, numerator over DecScale.
BaseQuota(u, p) ==
    IF ~p.UsePrice THEN
        LET ratio == p.ModelRatio * p.GroupRatio
            q == (PromptQuota(u, p) + u.CompletionTokens * p.CompletionRatio) * ratio
        IN  IF ratio # 0 /\ q <= 0 THEN DecScale ELSE q
    ELSE p.ModelPrice * QuotaPerUnit * p.GroupRatio * RatioScale

\* The integer quota of line 460.
RoundedQuota(u, p, t) ==
    Round0(BaseQuota(u, p)
             + ToolQuota(t.webPrice, t.webCalls, p.GroupRatio)
             + ToolQuota(t.filePrice, t.fileCalls, p.GroupRatio), DecScale)

ZeroTokenGuardOff(u) == FALSE
ZeroTokenGuard(u) == u.PromptTokens + u.CompletionTokens = 0

\* The quota charged by postConsumeQuota (lines 460-481).
FinalQuota(u, p, t) == IF ZeroTokenGuard(u) THEN 0 ELSE RoundedQuota(u, p, t)

QuotaDeltaNoPre(quota, pre) == quota
QuotaDelta(quota, pre) == quota - pre

\* ------------------------------------------------------------ deferred hook
DeferredRefundNever(err, pre) == FALSE
DeferredRefundAlways(err, pre) == pre # 0
\* The deferred function of TextHelper with returnPreConsumedQuota inlined:
\* TRUE when a refund task is handed to the worker pool.
DeferredRefund(err, pre) == err # NoErr /\ pre # 0

\* -------------------------------------------------------------- input sets
Half == MaxInt32 \div 2

ReqSmall ==
    [mode : {"chat"}, model : {"gpt"}, pathModel : {""},
     maxTokens : {Half, Half + 1}, prompt : {""}, messages : {0, 1},
     input : {"nil"}, instruction : {""}, bodyOk : {TRUE}]
    \cup
    [mode : {"edits"}, model : {"gpt"}, pathModel : {""},
     maxTokens : {0}, prompt : {""}, messages : {0},
     input : {"nil"}, instruction : {"fix"}, bodyOk : {TRUE}]

ReqAll ==
    [mode : RelayModes, model : {"", "gpt"}, pathModel : {"", "emb"},
     maxTokens : {0, Half, Half + 1, Half + 2}, prompt : {"", "p"},
     messages : {0, 1}, input : {"nil", "", "in"}, instruction : {"", "fix"},
     bodyOk : BOOLEAN]

UserBalances ==
    {0, 1} \cup {100 * k : k \in 1..MaxPreConsume} \cup {100 * k + 1 : k \in 1..MaxPreConsume}
TokenBalances == {0, 100 * MaxPreConsume, 100 * MaxPreConsume + 1}

RatioPrice(m, g, c, ca, i) ==
    [UsePrice |-> FALSE, ModelRatio |-> m, GroupRatio |-> g, CompletionRatio |-> c,
     CacheRatio |-> ca, ImageRatio |-> i, ModelPrice |-> 0]
FixedPrice(mp, g) ==
    [UsePrice |-> TRUE, ModelRatio |-> 0, GroupRatio |-> g, CompletionRatio |-> RatioScale,
     CacheRatio |-> RatioScale, ImageRatio |-> RatioScale, ModelPrice |-> mp]

PriceSmall ==
    {RatioPrice(RatioScale, RatioScale, RatioScale, RatioScale, RatioScale),
     RatioPrice(RatioScale, 0, RatioScale, RatioScale, RatioScale),
     FixedPrice(1, RatioScale)}

PriceAll ==
    {RatioPrice(m, g, c, ca, i) :
        m \in {0, 1, RatioScale}, g \in {0, 5, RatioScale},
        c \in {RatioScale, 30}, ca \in {5, RatioScale}, i \in {RatioScale, 20}}
    \cup {FixedPrice(mp, g) : mp \in {0, 1}, g \in {0, 5, RatioScale}}

Usage(p, c, ca, i) ==
    [PromptTokens |-> p, CompletionTokens |-> c, TotalTokens |-> p + c,
     CachedTokens |-> ca, ImageTokens |-> i]
NoUsage == Usage(0, 0, 0, 0)

UsageSmall == {Usage(p, c, 0, 0) : p \in 0..MaxTokens, c \in 0..MaxTokens}
UsageAll ==
    {u \in {Usage(p, c, ca, i) : p \in 0..MaxTokens, c \in 0..MaxTokens,
                                ca \in 0..MaxTokens, i \in 0..MaxTokens} :
        u.CachedTokens <= u.PromptTokens /\ u.ImageTokens <= u.PromptTokens}

NoTools == [webPrice |-> 0, webCalls |-> 0, filePrice |-> 0, fileCalls |-> 0]
ToolsAll ==
    {NoTools}
    \cup {[webPrice |-> 100, webCalls |-> k, filePrice |-> 0, fileCalls |-> 0] : k \in 1..MaxCalls}
    \cup {[webPrice |-> 0, webCalls |-> 0, filePrice |-> 25, fileCalls |-> k] : k \in 1..MaxCalls}

UpstreamStatuses == {StatusOK, 429, StatusInternalServerError}
\* A nil *http.Response.
NilResp == 1 - 1

\* ------------------------------------------------ workflow adapter: streaming
\* Text is a sequence of pieces; a nil pointer is the empty sequence and a set
\* pointer the one-element sequence holding its value.
MaxEvents == 3

DetailsOpen == <<"<details style=\"color:gray;background-color: #f8f8f8;padding: 8px;border-radius: 4px;\" open> <summary> Thinking... </summary>\n">>
DetailsClose == <<"</details>">>
Answers == {<<"a", "b">>, DetailsOpen, DetailsClose}

\* One data line of the upstream stream; valid is FALSE when it is not JSON.
Ev(e, a, u) == [event |-> e, answer |-> a, usage |-> u, valid |-> TRUE]
BadLine == [event |-> "", answer |-> <<>>, usage |-> NoUsage, valid |-> FALSE]
EndUsages == {NoUsage, Usage(1, MaxTokens, 0, 0)}
MessageEvents ==
    {Ev("message", a, NoUsage) : a \in Answers} \cup {Ev("agent_message", <<"c">>, NoUsage)}
TraceEvents ==
    {Ev(e, <<>>, NoUsage) :
        e \in {"workflow_started", "workflow_finished", "node_started", "node_finished",
               "node_retry"}}
EndEvents == {Ev("message_end", <<>>, u) : u \in EndUsages} \cup {Ev("error", <<>>, NoUsage)}
OtherEvents == {Ev("tts_message", <<>>, NoUsage)}
EventsAll == MessageEvents \cup TraceEvents \cup EndEvents \cup OtherEvents \cup {BadLine}
EventsFew ==
    {Ev("message", <<"a", "b">>, NoUsage), Ev("node_started", <<>>, NoUsage),
     Ev("message_end", <<>>, Usage(1, MaxTokens, 0, 0)), Ev("error", <<>>, NoUsage)}

\* strings.HasPrefix(s, prefix).
HasPrefix(s, prefix) == Len(s) >= Len(prefix) /\ SubSeq(s, 1, Len(prefix)) = prefix

\* Lines 238 and 249.
IsWorkflowEvent(e) == HasPrefix(e, "workflow_")
IsNodeEvent(e) == HasPrefix(e, "node_")

NoDelta == [Content |-> <<>>, ReasoningContent |-> <<>>]
GetContentString(delta) == IF delta.Content = <<>> THEN <<>> ELSE delta.Content[1]

\* Lines 230-282. Data.WorkflowId is "wf", Data.NodeType "llm", Data.Status "succeeded".
streamResponseDify2OpenAI(difyResponse, debug) ==
    LET e == difyResponse.event
        choice ==
            IF IsWorkflowEvent(e)
            THEN IF debug
                 THEN [NoDelta EXCEPT !.ReasoningContent =
                          <<IF e = "workflow_finished" THEN "Workflow: wf succeeded\n"
                            ELSE "Workflow: wf\n">>]
                 ELSE NoDelta
            ELSE IF IsNodeEvent(e)
            THEN IF debug
                 THEN [NoDelta EXCEPT !.ReasoningContent =
                          <<IF e = "node_finished" THEN "Node: llm succeeded\n"
                            ELSE "Node: llm\n">>]
                 ELSE NoDelta
            ELSE IF e = "message" \/ e = "agent_message"
            THEN LET answer == IF difyResponse.answer = DetailsOpen THEN <<"<think>">>
                               ELSE IF difyResponse.answer = DetailsClose THEN <<"</think>">>
                               ELSE difyResponse.answer
                 IN  [NoDelta EXCEPT !.Content = <<answer>>]
            ELSE NoDelta
    IN  [Choices |-> <<choice>>]

\* The value the scanner callback returns (lines 306-311, 339): FALSE stops the scan.
CallbackContinuesAlways(difyResponse) == TRUE
CallbackContinues(difyResponse) ==
    ~(difyResponse.valid /\ difyResponse.event \in {"message_end", "error"})

\* Line 317.
AccumulateTextReversed(text, contentStr) == contentStr \o text
AccumulateText(text, contentStr) == text \o contentStr

\* service.CountTextToken: one token per piece of text.
CountTextToken(text) == Len(text)

\* helper.ObjectData and helper.Done: one write on the client connection.
ObjectData(response, connOk) == [kind |-> "chunk", choices |-> response.Choices, ok |-> connOk]
Done(connOk) == [kind |-> "done", choices |-> <<>>, ok |-> connOk]

\* Line 341: helper.Done is called however the scan ended.
DoneWrittenOnMessageEnd(stoppedBy) == stoppedBy = "message_end"
DoneWritten(stoppedBy) == TRUE

FinalUsageNoNodes(u, prompt, text, nodes) ==
    IF u.TotalTokens = 0
    THEN [u EXCEPT !.PromptTokens = prompt,
                   !.CompletionTokens = CountTextToken(text),
                   !.TotalTokens = prompt + CountTextToken(text)]
    ELSE u
\* Lines 346-353.
FinalUsage(u, prompt, text, nodes) ==
    LET synthesized ==
            IF u.TotalTokens = 0
            THEN [u EXCEPT !.PromptTokens = prompt,
                           !.CompletionTokens = CountTextToken(text),
                           !.TotalTokens = prompt + CountTextToken(text)]
            ELSE u
    IN  [synthesized EXCEPT !.CompletionTokens = @ + nodes]

StreamHandlerErrOnErrorEvent(stoppedBy, writeFailed) ==
    IF stoppedBy = "error"
    THEN OpenAIErrorWrapper("upstream error event", "dify_error", StatusInternalServerError)
    ELSE NoErr
StreamHandlerErrOnWriteFail(stoppedBy, writeFailed) ==
    IF writeFailed
    THEN OpenAIErrorWrapper("client write failed", "write_failed", StatusInternalServerError)
    ELSE NoErr
\* Line 355: the error result of difyStreamHandler.
StreamHandlerErr(stoppedBy, writeFailed) == NoErr

\* ----------------------------------------------- workflow adapter: conversion
\* A JSON object in bytes is the sequence of its <<key, value>> members; a JSON
\* object value (inputs) is a set of <<key, value>> pairs.
MaxMessages == 2

\* How the upload of one local image goes: the first step that fails ("" when
\* none does), the HTTP status of the upload response and the id in its body.
UploadSteps ==
    {"base64_decode", "create_temp", "write_temp", "write_field", "create_form_file",
     "copy", "new_request", "do", "read_body", "decode_json"}
UploadFails(step) == [fail |-> step, status |-> 0, id |-> ""]
Uploaded(status, id) == [fail |-> "", status |-> status, id |-> id]
NoUpload == Uploaded(0, "")
UploadOutcomes ==
    {UploadFails(step) : step \in UploadSteps} \cup {Uploaded(201, "file-1"), Uploaded(413, "")}

TextPart(t) == [type |-> "text", text |-> t, remote |-> FALSE, mime |-> "", upload |-> NoUpload]
ImagePart(remote, mime, up) ==
    [type |-> "image_url", text |-> "", remote |-> remote, mime |-> mime, upload |-> up]
Message(role, content) == [role |-> role, content |-> content]

Messages ==
    {Message("system", <<TextPart("s1")>>),
     Message("assistant", <<TextPart("a1")>>),
     Message("tool", <<TextPart("t1")>>),
     Message("user", <<TextPart("u1")>>),
     Message("user", <<TextPart("u2"), ImagePart(TRUE, "", NoUpload), TextPart("u3")>>),
     Message("user", <<ImagePart(TRUE, "image/png", NoUpload)>>)}
    \cup {Message("user", <<ImagePart(FALSE, "image/png", up), TextPart("u4")>>) :
            up \in UploadOutcomes}
MessageLists == UNION {[1..n -> Messages] : n \in 0..MaxMessages}

\* A JSON value carries its kind: an object is a set of <<key, value>> pairs.
JObject(members) == [kind |-> "object", val |-> members]
JArray(elements) == [kind |-> "array", val |-> elements]
JString(text) == [kind |-> "string", val |-> text]
JNumber(n) == [kind |-> "number", val |-> n]
JBool(b) == [kind |-> "bool", val |-> b]

EmptyMap == [k \in {} |-> k]
Overrides ==
    {EmptyMap,
     [response_mode |-> JString("blocking")],
     [inputs |-> JObject({<<"lang", "en">>}), conversation_id |-> JString("c1")],
     [inputs |-> JString("en"), temperature |-> JNumber(1)]}

\* Lines 23-147: nil (the empty sequence) or a pointer to the file entry.
uploadDifyFile(media) ==
    IF media.type # "image_url" THEN <<>>
    ELSE IF media.upload.fail # "" THEN <<>>
    ELSE <<[Type |-> "image", TransferMode |-> "local_file", URL |-> "",
            UploadFileId |-> media.upload.id]>>

\* Lines 39-54: the calls deferred by the time uploadDifyFile returns at the
\* given exit, in the order they run (last deferred first).
DeferredCallsOnSuccess(exit) ==
    IF exit = "" THEN <<"os.Remove", "tempFile.Close">> ELSE <<>>
DeferredCalls(exit) ==
    IF exit \in {"base64_decode", "create_temp"}
    THEN <<>>
    ELSE <<"os.Remove", "tempFile.Close">>

\* The deferred calls applied to a temporary file: os.Remove unlinks the name
\* while the descriptor is still open, tempFile.Close releases the descriptor.
RECURSIVE RunDeferred(_, _)
RunDeferred(file, deferred) ==
    IF deferred = <<>> THEN file
    ELSE RunDeferred(IF Head(deferred) = "os.Remove" THEN [file EXCEPT !.linked = FALSE]
                     ELSE [file EXCEPT !.open = FALSE],
                     Tail(deferred))

\* Lines 47-54: whether uploadDifyFile gets as far as holding a temporary file.
CreatesTemp(media) ==
    /\ media.type = "image_url"
    /\ ~media.remote
    /\ media.upload.fail \notin {"base64_decode", "create_temp"}

\* Lines 47-146: the temporary file of one upload as uploadDifyFile leaves it.
TempFile(media) ==
    RunDeferred([exit |-> media.upload.fail, open |-> TRUE, linked |-> TRUE],
                DeferredCalls(media.upload.fail))

\* Lines 194-214: the temporary files of the uploads of one message's parts.
RECURSIVE TempFilesOfParts(_)
TempFilesOfParts(parts) ==
    IF parts = <<>> THEN <<>>
    ELSE (IF CreatesTemp(Head(parts)) THEN <<TempFile(Head(parts))>> ELSE <<>>)
             \o TempFilesOfParts(Tail(parts))

\* Lines 182-225: the temporary files of one conversion, in upload order.
RECURSIVE TempFilesOf(_)
TempFilesOf(messages) ==
    IF messages = <<>> THEN <<>>
    ELSE (IF Head(messages).role = "system" \/ Head(messages).role = "assistant"
          THEN <<>>
          ELSE TempFilesOfParts(Head(messages).content))
             \o TempFilesOf(Tail(messages))

\* message.StringContent() of a message whose content is one string.
StringContent(message) == message.content[1].text

\* Lines 185-191 and 198: the label written before a block of text.
RoleLabelAllUser(role) == "USER: \n"
RoleLabel(role) ==
    IF role = "system" THEN "SYSTEM: \n"
    ELSE IF role = "assistant" THEN "ASSISTANT: \n"
    ELSE "USER: \n"

\* Lines 194-222: the parts of one message that is neither system nor assistant.
RECURSIVE FoldParts(_, _, _)
FoldParts(role, parts, acc) ==
    IF parts = <<>> THEN acc
    ELSE LET mediaContent == Head(parts)
             file == IF mediaContent.remote
                     THEN <<[Type |-> IF mediaContent.mime = "" THEN "image/jpeg"
                                      ELSE mediaContent.mime,
                             TransferMode |-> "remote_url", URL |-> "http://img",
                             UploadFileId |-> ""]>>
                     ELSE uploadDifyFile(mediaContent)
             next ==
                IF mediaContent.type = "text"
                THEN [acc EXCEPT !.Query = @ \o <<RoleLabel(role), mediaContent.text, "\n">>]
                ELSE IF mediaContent.type = "image_url" /\ file # <<>>
                THEN [acc EXCEPT !.Files = @ \o file]
                ELSE acc
         IN  FoldParts(role, Tail(parts), next)

\* Lines 182-225.
RECURSIVE FoldMessages(_, _)
FoldMessages(messages, acc) ==
    IF messages = <<>> THEN acc
    ELSE LET message == Head(messages)
             next ==
                IF message.role = "system" \/ message.role = "assistant"
                THEN [acc EXCEPT !.Query =
                         @ \o <<RoleLabel(message.role), StringContent(message), "\n">>]
                ELSE FoldParts(message.role, message.content, acc)
         IN  FoldMessages(Tail(messages), next)

\* Lines 157-165: the inputs of the override are taken when they are a JSON
\* object, and are the empty map otherwise.
OverrideInputs(override) ==
    IF "inputs" \in DOMAIN override /\ override["inputs"].kind = "object"
    THEN override["inputs"].val
    ELSE {}

\* Lines 149-228.
requestOpenAI2Dify(messages, override) ==
    LET folded == FoldMessages(messages, [Query |-> <<>>, Files |-> <<>>])
    IN  [Inputs |-> OverrideInputs(override),
         Query |-> folded.Query,
         ResponseMode |-> "streaming",
         User |-> "liujiahao10570",
         AutoGenerateName |-> TRUE,
         Files |-> folded.Files]

\* json.Marshal of a DifyChatRequest: members in field order.
MarshalStruct(req) ==
    <<<<"inputs", JObject(req.Inputs)>>, <<"query", JString(req.Query)>>,
      <<"response_mode", JString(req.ResponseMode)>>, <<"user", JString(req.User)>>,
      <<"auto_generate_name", JBool(req.AutoGenerateName)>>, <<"files", JArray(req.Files)>>>>

\* json.Unmarshal into a map[string]interface{}.
Unmarshal(bytes) ==
    [k \in {bytes[i][1] : i \in 1..Len(bytes)} |->
        bytes[CHOOSE i \in 1..Len(bytes) :
                  bytes[i][1] = k /\ \A j \in (i + 1)..Len(bytes) : bytes[j][1] # k][2]]

\* The characters of a key, in byte order.
Alphabet == "-0123456789ABCDEFGHIJKLMNOPQRSTUVWXYZ_abcdefghijklmnopqrstuvwxyz"
CharRank ==
    [char \in {SubSeq(Alphabet, n, n) : n \in 1..Len(Alphabet)} |->
        CHOOSE n \in 1..Len(Alphabet) : SubSeq(Alphabet, n, n) = char]
Rank(char) == CharRank[char]

\* a < b as Go compares strings, looking from character i on.
RECURSIVE LessFrom(_, _, _)
LessFrom(a, b, i) ==
    IF i > Len(a) THEN i <= Len(b)
    ELSE IF i > Len(b) THEN FALSE
    ELSE LET ra == Rank(SubSeq(a, i, i))
             rb == Rank(SubSeq(b, i, i))
         IN  IF ra # rb THEN ra < rb ELSE LessFrom(a, b, i + 1)

\* The keys of a map in increasing order.
RECURSIVE SortedKeys(_)
SortedKeys(keys) ==
    IF keys = {} THEN <<>>
    ELSE LET first == CHOOSE k \in keys : \A other \in keys \ {k} : LessFrom(k, other, 1)
         IN  <<first>> \o SortedKeys(keys \ {first})

\* json.Marshal of a map[string]interface{}: every member, in sorted key order.
MarshalMap(reqMap) ==
    LET keys == SortedKeys(DOMAIN reqMap)
    IN  [i \in 1..Len(keys) |-> <<keys[i], reqMap[keys[i]]>>]

\* Lines 210-212 of TextHelper.
ParamOverrideMergeKeep(reqMap, override) ==
    [k \in DOMAIN reqMap \cup DOMAIN override |->
        IF k \in DOMAIN reqMap THEN reqMap[k] ELSE override[k]]
ParamOverrideMerge(reqMap, override) ==
    [k \in DOMAIN reqMap \cup DOMAIN override |->
        IF k \in DOMAIN override THEN override[k] ELSE reqMap[k]]

\* Lines 202-218 of TextHelper: the override applies to a non-empty map only.
ApplyParamOverride(jsonData, override) ==
    IF DOMAIN override # {}
    THEN MarshalMap(ParamOverrideMerge(Unmarshal(jsonData), override))
    ELSE jsonData

\* common.GetRequestBody: the bytes the client sent.
RawBody(messages) == <<<<"model", JString("gpt")>>, <<"messages", JArray(messages)>>>>
\* A reader with nothing left to read.
NoBody == <<>>

\* The step of lines 179-221 that fails, "" when none does.
BodySteps(passThrough, override) ==
    IF passThrough THEN {"", "get_request_body_failed"}
    ELSE {"", "convert_request_failed", "json_marshal_failed"}
         \cup (IF DOMAIN override # {}
               THEN {"param_override_unmarshal_failed", "param_override_marshal_failed"}
               ELSE {})

\* ------------------------------------------------------------------- state
VARIABLES
    pc,               \* position of the handler in TextHelper
    textRequest,      \* the inbound request
    promptTokens,     \* relayInfo.PromptTokens
    priceData,        \* result of ModelPriceHelper
    shouldPre,        \* priceData.ShouldPreConsumedQuota
    tokenUnlimited,   \* relayInfo.TokenUnlimited
    userLedger,       \* user balance in the store
    tokenLedger,      \* token balance in the store
    userStart,        \* user balance when the request arrived
    tokenStart,       \* token balance when the request arrived (the token_quota key)
    preConsumedQuota, \* local of TextHelper
    userQuota,        \* balance snapshot returned by preConsumeQuota
    openaiErr,        \* named result of TextHelper
    resp,             \* upstream response status, NilResp when there is none
    usage,            \* usage returned by DoResponse
    quota,            \* final quota computed by postConsumeQuota
    usedQuota,        \* user used-quota counter
    channelUsedQuota, \* channel used-quota counter
    settled,          \* "none", "nodelta", "posted" or "failed"
    refund,           \* "none", "pending", "done" or "failed"
    consumeLog,       \* rows written by RecordConsumeLog
    calls,            \* external operations invoked, in order
    difyDebug,        \* constant.DifyDebug
    seen,             \* upstream events handed to the scanner callback, in order
    responseText,     \* local of difyStreamHandler
    nodeToken,        \* local of difyStreamHandler
    client,           \* writes issued to the client connection, in order
    clientOk,         \* FALSE once the client has disconnected
    bodyClosed,       \* whether the upstream response body has been closed
    chatMessages,     \* textRequest.Messages
    paramOverride,    \* relayInfo.ParamOverride
    requestBody,      \* the bytes behind the io.Reader handed to DoRequest
    tempFiles,        \* temporary files created by uploadDifyFile, in order
    handlers          \* concurrent runs of preConsumeQuota for one user

vars == <<pc, textRequest, promptTokens, priceData, shouldPre, tokenUnlimited,
          userLedger, tokenLedger, userStart, tokenStart, preConsumedQuota, userQuota,
          openaiErr, resp, usage, quota, usedQuota, channelUsedQuota, settled, refund,
          consumeLog, calls, difyDebug, seen, responseText, nodeToken, client, clientOk,
          bodyClosed, chatMessages, paramOverride, requestBody, tempFiles, handlers>>

reqVars == <<textRequest, tokenUnlimited, userStart, tokenStart>>
ledgerVars == <<userLedger, tokenLedger>>
settleVars == <<quota, usedQuota, channelUsedQuota, settled, consumeLog>>
streamVars == <<difyDebug, seen, responseText, nodeToken, client, clientOk, bodyClosed>>
bodyVars == <<chatMessages, paramOverride, requestBody, tempFiles>>
poolVars == <<handlers>>

\* The locals of difyStreamHandler at lines 286-288 and an open connection.
InitStreamVars ==
    /\ difyDebug = FALSE
    /\ seen = <<>>
    /\ responseText = <<>>
    /\ nodeToken = 0
    /\ client = <<>>
    /\ clientOk = TRUE
    /\ bodyClosed = FALSE

\* textRequest.Messages of a request: empty when the request carries none.
MessagesOf(r) == IF r.messages = 0 THEN <<>> ELSE <<Message("user", <<TextPart("u1")>>)>>

InitBodyVars ==
    /\ chatMessages = MessagesOf(textRequest)
    /\ paramOverride = EmptyMap
    /\ requestBody = NoBody
    /\ tempFiles = <<>>

\* No concurrent run of preConsumeQuota beside the request followed.
InitPoolVars == handlers = <<>>

InitCommon ==
    /\ InitStreamVars
    /\ InitBodyVars
    /\ promptTokens = 0
    /\ priceData = PriceSmall
    /\ shouldPre = 0
    /\ preConsumedQuota = 0
    /\ userQuota = 0
    /\ openaiErr = NoErr
    /\ resp = NilResp
    /\ usage = NoUsage
    /\ quota = 0
    /\ usedQuota = 0
    /\ channelUsedQuota = 0
    /\ settled = "none"
    /\ refund = "none"
    /\ consumeLog = <<>>
    /\ calls = <<>>

Init ==
    /\ pc = "start"
    /\ textRequest \in ReqSmall
    /\ tokenUnlimited \in BOOLEAN
    /\ userStart \in UserBalances
    /\ tokenStart \in TokenBalances
    /\ userLedger = userStart
    /\ tokenLedger = tokenStart
    /\ InitCommon
    /\ InitPoolVars

ReturnEarlyGoesOn(err) ==
    /\ pc' = "dorequest"
    /\ openaiErr' = err
\* A return of TextHelper before the deferred function is registered.
ReturnEarly(err) ==
    /\ pc' = "returned"
    /\ openaiErr' = err

\* A return of TextHelper after line 141: the deferred function runs.
Return(err) ==
    /\ pc' = "returned"
    /\ openaiErr' = err
    /\ refund' = IF DeferredRefund(err, preConsumedQuota) THEN "pending" ELSE refund

\* ----------------------------------------------------------------- actions
\* Lines 82-87.
Validate ==
    /\ pc = "start"
    /\ calls' = Append(calls, "Validate")
    /\ LET e == getAndValidateTextRequest(textRequest)
       IN  IF e # ""
           THEN /\ ReturnEarly(OpenAIErrorWrapper(e, "invalid_text_request", StatusBadRequest))
                /\ textRequest' = textRequest
           ELSE /\ pc' = "sensitive"
                /\ openaiErr' = openaiErr
                /\ textRequest' = [textRequest EXCEPT !.model = DefaultedModel(textRequest)]
    /\ UNCHANGED <<tokenUnlimited, userStart, tokenStart, poolVars, streamVars, bodyVars, ledgerVars, settleVars, promptTokens, priceData, shouldPre,
                   preConsumedQuota, userQuota, resp, usage, refund>>

\* Lines 89-97: the optional scan; checkRequestSensitive scans four modes only.
CheckSensitive ==
    /\ pc = "sensitive"
    /\ \E enabled \in BOOLEAN, found \in BOOLEAN :
        IF enabled /\ found /\ textRequest.mode # "edits"
        THEN /\ ReturnEarly(OpenAIErrorWrapper("sensitive words detected", "sensitive_words_detected", StatusBadRequest))
             /\ calls' = Append(calls, "CheckSensitive")
        ELSE /\ pc' = "mapping"
             /\ openaiErr' = openaiErr
             /\ calls' = IF enabled THEN Append(calls, "CheckSensitive") ELSE calls
    /\ UNCHANGED <<reqVars, poolVars, streamVars, bodyVars, ledgerVars, settleVars, promptTokens, priceData, shouldPre,
                   preConsumedQuota, userQuota, resp, usage, refund>>

\* Names the channel may map the requested model to.
UpstreamModels == {"app-1"}

\* Lines 99-106: the request carries the upstream model name from here on.
ModelMapped ==
    /\ pc = "mapping"
    /\ calls' = Append(calls, "ModelMapped")
    /\ \E ok \in BOOLEAN, upstream \in {textRequest.model} \cup UpstreamModels :
        IF ok
        THEN /\ pc' = "tokens"
             /\ openaiErr' = openaiErr
             /\ textRequest' = [textRequest EXCEPT !.model = upstream]
        ELSE /\ ReturnEarly(OpenAIErrorWrapper("mapping failed", "model_mapped_error", StatusInternalServerError))
             /\ textRequest' = textRequest
    /\ UNCHANGED <<tokenUnlimited, userStart, tokenStart, poolVars, streamVars, bodyVars, ledgerVars, settleVars, promptTokens, priceData, shouldPre,
                   preConsumedQuota, userQuota, resp, usage, refund>>

\* Lines 108-123.
ResolvePromptTokens ==
    /\ pc = "tokens"
    /\ calls' = Append(calls, "PromptTokens")
    /\ \E inContext \in BOOLEAN, counterOk \in BOOLEAN, n \in {MaxTokens} :
        LET r == getPromptTokens(textRequest.mode, counterOk, n)
        IN  IF inContext
            THEN pc' = "price" /\ promptTokens' = n /\ openaiErr' = openaiErr
            ELSE IF r.err = ""
            THEN pc' = "price" /\ promptTokens' = r.tokens /\ openaiErr' = openaiErr
            ELSE /\ ReturnEarly(OpenAIErrorWrapper(r.err, "count_token_messages_failed",
                                                   StatusInternalServerError))
                 /\ promptTokens' = r.tokens
    /\ UNCHANGED <<reqVars, poolVars, streamVars, bodyVars, ledgerVars, settleVars, priceData, shouldPre,
                   preConsumedQuota, userQuota, resp, usage, refund>>

\* Lines 125-131.
ModelPrice ==
    /\ pc = "price"
    /\ calls' = Append(calls, "ModelPrice")
    /\ \E ok \in BOOLEAN, p \in PriceSmall, want \in 0..MaxPreConsume :
        IF ok
        THEN pc' = "preconsume" /\ priceData' = p /\ shouldPre' = want
             /\ openaiErr' = openaiErr
        ELSE /\ ReturnEarly(OpenAIErrorWrapper("price lookup failed", "model_price_error", StatusInternalServerError))
             /\ UNCHANGED <<priceData, shouldPre>>
    /\ UNCHANGED <<reqVars, poolVars, streamVars, bodyVars, ledgerVars, settleVars, promptTokens,
                   preConsumedQuota, userQuota, resp, usage, refund>>

\* Lines 134-146: preConsumeQuota, then the deferred function is registered.
PreConsume ==
    /\ pc = "preconsume"
    /\ calls' = Append(calls, "preConsumeQuota")
    /\ \E readOk \in BOOLEAN, tokOk \in BOOLEAN, userOk \in BOOLEAN :
        LET r == preConsumeQuota(userLedger, tokenLedger, tokenStart, tokenUnlimited,
                                 shouldPre, readOk, tokOk, userOk)
        IN  /\ userLedger' = r.user
            /\ tokenLedger' = r.tok
            /\ preConsumedQuota' = r.pre
            /\ userQuota' = r.userQuota
            /\ IF r.err # NoErr THEN ReturnEarly(r.err)
               ELSE pc' = "adaptor" /\ openaiErr' = NoErr
    /\ UNCHANGED <<reqVars, poolVars, streamVars, bodyVars, settleVars, promptTokens, priceData, shouldPre,
                   resp, usage, refund>>

\* Lines 147-176.
GetAdaptor ==
    /\ pc = "adaptor"
    /\ calls' = Append(calls, "GetAdaptor")
    /\ \E ok \in BOOLEAN :
        IF ok THEN pc' = "body" /\ UNCHANGED <<openaiErr, refund>>
        ELSE Return(OpenAIErrorWrapper("invalid api type", "invalid_api_type", StatusBadRequest))
    /\ UNCHANGED <<reqVars, poolVars, streamVars, bodyVars, ledgerVars, settleVars, promptTokens, priceData, shouldPre,
                   preConsumedQuota, userQuota, resp, usage>>

\* Lines 179-221.
BuildBody ==
    /\ pc = "body"
    /\ calls' = Append(calls, "BuildBody")
    /\ \E passThrough \in BOOLEAN :
        \E failed \in BodySteps(passThrough, paramOverride) :
            /\ IF failed # ""
               THEN /\ Return(OpenAIErrorWrapper("body build failed", failed,
                                                 StatusInternalServerError))
                    /\ requestBody' = requestBody
               ELSE /\ pc' = "dorequest"
                    /\ requestBody' =
                           IF passThrough THEN RawBody(chatMessages)
                           ELSE ApplyParamOverride(
                                    MarshalStruct(requestOpenAI2Dify(chatMessages, paramOverride)),
                                    paramOverride)
                    /\ UNCHANGED <<openaiErr, refund>>
            /\ tempFiles' = IF passThrough \/ failed = "convert_request_failed"
                            THEN tempFiles
                            ELSE tempFiles \o TempFilesOf(chatMessages)
    /\ UNCHANGED <<reqVars, poolVars, streamVars, ledgerVars, settleVars, promptTokens, priceData, shouldPre,
                   preConsumedQuota, userQuota, resp, usage, chatMessages, paramOverride>>

\* Lines 223-230: the adaptor takes the reader and, without a transport error,
\* gives the raw HTTP response.
DoRequest ==
    /\ pc = "dorequest"
    /\ calls' = Append(calls, "DoRequest")
    /\ requestBody' = NoBody
    /\ \E failed \in BOOLEAN, out \in UpstreamStatuses :
        IF failed
        THEN Return(OpenAIErrorWrapper("transport error", "do_request_failed", StatusInternalServerError))
             /\ resp' = resp
        ELSE pc' = "status" /\ resp' = out /\ UNCHANGED <<openaiErr, refund>>
    /\ UNCHANGED <<reqVars, poolVars, streamVars, ledgerVars, settleVars, promptTokens, priceData, shouldPre,
                   preConsumedQuota, userQuota, usage, chatMessages, paramOverride, tempFiles>>

StatusRejectedNever(r) == FALSE
\* Line 234 and line 240.
StatusRejected(r) == r # NilResp /\ r # StatusOK

\* The per-channel status_code_mapping: from a status code to the one reported.
StatusCodeMappings == {<<>>, 429 :> StatusInternalServerError, StatusInternalServerError :> 503}

\* service.ResetStatusCode: a status code with an entry in the mapping is replaced.
ResetStatusCode(err, mapping) ==
    IF err.status \in DOMAIN mapping THEN [err EXCEPT !.status = mapping[err.status]] ELSE err

\* Lines 232-248: the upstream error is mapped and its status code remapped.
CheckStatus ==
    /\ pc = "status"
    /\ IF StatusRejected(resp)
       THEN /\ \E mapping \in StatusCodeMappings :
                Return(ResetStatusCode(OpenAIErrorWrapper("upstream error", "upstream_error", resp),
                                       mapping))
            /\ calls' = Append(calls, "RelayErrorHandler")
       ELSE pc' = "doresponse" /\ UNCHANGED <<openaiErr, refund, calls>>
    /\ UNCHANGED <<reqVars, poolVars, streamVars, bodyVars, ledgerVars, settleVars, promptTokens, priceData, shouldPre,
                   preConsumedQuota, userQuota, resp, usage>>

\* The step of difyHandler that fails, "" when none does.
DifyHandlerSteps ==
    {"", "read_response_body_failed", "close_response_body_failed",
     "unmarshal_response_body_failed", "marshal_response_body_failed"}

\* Lines 393-414 of relay-dify.go: the one write of the non-stream response.
TextResponse(status, answer, connOk) ==
    [kind |-> "response", status |-> status,
     choices |-> <<[Index |-> 0, Role |-> "assistant", Content |-> answer,
                    FinishReason |-> "stop"]>>,
     ok |-> connOk]

\* difyHandler (relay-dify.go lines 358-420) on a response with the given
\* status: closed tells whether resp.Body.Close was called, writes what was
\* written to the client, u is the usage of the upstream metadata.
difyHandler(status, failed, u, answer, connOk) ==
    [err |-> IF failed = "" THEN NoErr
             ELSE OpenAIErrorWrapper("response handling failed", failed,
                                     StatusInternalServerError),
     usage |-> IF failed = "" THEN <<u>> ELSE <<>>,
     closed |-> failed # "read_response_body_failed",
     writes |-> IF failed = "" THEN <<TextResponse(status, answer, connOk)>> ELSE <<>>]

\* Lines 250-258, for a response that is not a stream: adaptor.DoResponse runs
\* difyHandler, and its error has its status code remapped.
DoResponse ==
    /\ pc = "doresponse"
    /\ calls' = Append(calls, "DoResponse")
    /\ \E failed \in DifyHandlerSteps, u \in UsageSmall, connOk \in BOOLEAN,
          mapping \in StatusCodeMappings :
        LET r == difyHandler(resp, failed, u, <<"a", "b">>, connOk)
        IN  /\ bodyClosed' = r.closed
            /\ client' = client \o r.writes
            /\ clientOk' = IF r.writes # <<>> THEN connOk ELSE clientOk
            /\ IF r.err # NoErr
               THEN Return(ResetStatusCode(r.err, mapping)) /\ usage' = usage
               ELSE usage' = r.usage[1] /\ pc' = "settle" /\ UNCHANGED <<openaiErr, refund>>
    /\ UNCHANGED <<reqVars, poolVars, bodyVars, ledgerVars, settleVars, promptTokens, priceData, shouldPre,
                   preConsumedQuota, userQuota, resp, difyDebug, seen, responseText, nodeToken>>

\* postConsumeQuota (lines 366-525) applied to usage u.
postConsumeQuota(u, tools, ledgerOk) ==
    LET q == FinalQuota(u, priceData, tools)
        delta == QuotaDelta(q, preConsumedQuota)
    IN  /\ quota' = q
        /\ IF ZeroTokenGuard(u)
           THEN UNCHANGED <<usedQuota, channelUsedQuota>>
           ELSE usedQuota' = usedQuota + q /\ channelUsedQuota' = channelUsedQuota + q
        /\ IF delta # 0
           THEN /\ userLedger' = PostConsumeQuota(userLedger, delta, ledgerOk)
                /\ tokenLedger' = PostConsumeQuota(tokenLedger, delta, ledgerOk)
                /\ settled' = IF ledgerOk THEN "posted" ELSE "failed"
           ELSE /\ UNCHANGED ledgerVars
                /\ settled' = "nodelta"
        /\ consumeLog' = Append(consumeLog, [quota |-> q, prompt |-> u.PromptTokens,
                                             completion |-> u.CompletionTokens,
                                             tools |-> tools])

\* Lines 260-270: settlement, then TextHelper returns nil.
Settle ==
    /\ pc = "settle"
    /\ calls' = Append(calls, "postConsumeQuota")
    /\ \E tools \in ToolsAll, ledgerOk \in BOOLEAN : postConsumeQuota(usage, tools, ledgerOk)
    /\ Return(NoErr)
    /\ UNCHANGED <<reqVars, poolVars, streamVars, bodyVars, promptTokens, priceData, shouldPre,
                   preConsumedQuota, userQuota, resp, usage>>

\* Lines 355-362: the refund task on the worker pool.
RefundTask ==
    /\ refund = "pending"
    /\ calls' = Append(calls, "returnPreConsumedQuota")
    /\ \E ok \in BOOLEAN :
        /\ userLedger' = PostConsumeQuota(userLedger, 0 - preConsumedQuota, ok)
        /\ tokenLedger' = PostConsumeQuota(tokenLedger, 0 - preConsumedQuota, ok)
        /\ refund' = IF ok THEN "done" ELSE "failed"
    /\ UNCHANGED <<reqVars, poolVars, streamVars, bodyVars, settleVars, pc, promptTokens, priceData, shouldPre,
                   preConsumedQuota, userQuota, openaiErr, resp, usage>>

Next ==
    \/ Validate
    \/ CheckSensitive
    \/ ModelMapped
    \/ ResolvePromptTokens
    \/ ModelPrice
    \/ PreConsume
    \/ GetAdaptor
    \/ BuildBody
    \/ DoRequest
    \/ CheckStatus
    \/ DoResponse
    \/ Settle
    \/ RefundTask

Spec == Init /\ [][Next]_vars

\* Validation alone, over every relay mode and payload shape.
InitValidate ==
    /\ pc = "start"
    /\ textRequest \in ReqAll
    /\ tokenUnlimited = FALSE
    /\ userStart = 1
    /\ tokenStart = 1
    /\ userLedger = userStart
    /\ tokenLedger = tokenStart
    /\ InitCommon
    /\ InitPoolVars

SpecValidate == InitValidate /\ [][Validate]_vars

\* The state a successful preConsumeQuota leaves for a user who is not
\* trusted: balance 100, a limited token, one unit requested.
InitPreConsumed ==
    /\ tokenUnlimited = FALSE
    /\ userStart = 100
    /\ tokenStart = 100 * MaxPreConsume
    /\ shouldPre = 1
    /\ LET r == preConsumeQuota(userStart, tokenStart, tokenStart, tokenUnlimited,
                                shouldPre, TRUE, TRUE, TRUE)
       IN  /\ preConsumedQuota = r.pre
           /\ userQuota = r.userQuota
           /\ userLedger = r.user
           /\ tokenLedger = r.tok

\* Settlement alone, over every usage shape, price record and tool charge.
InitQuota ==
    /\ pc = "settle"
    /\ textRequest \in {r \in ReqSmall : getAndValidateTextRequest(r) = "" /\ r.mode = "chat"}
    /\ InitPreConsumed
    /\ promptTokens = MaxTokens
    /\ priceData \in PriceAll
    /\ openaiErr = NoErr
    /\ resp = StatusOK
    /\ usage \in UsageAll
    /\ quota = 0
    /\ usedQuota = 0
    /\ channelUsedQuota = 0
    /\ settled = "none"
    /\ refund = "none"
    /\ consumeLog = <<>>
    /\ calls = <<"Validate", "ModelMapped", "PromptTokens", "ModelPrice", "preConsumeQuota",
                 "GetAdaptor", "BuildBody", "DoRequest", "DoResponse">>
    /\ difyDebug = FALSE
    /\ seen = <<>>
    /\ responseText = <<>>
    /\ nodeToken = 0
    /\ clientOk = TRUE
    /\ LET r == difyHandler(resp, "", usage, <<"a", "b">>, clientOk)
       IN  bodyClosed = r.closed /\ client = r.writes
    /\ InitBodyVars
    /\ InitPoolVars

SpecQuota == InitQuota /\ [][Settle]_vars

\* ------------------------------------------------- difyStreamHandler, stepwise
\* Lines 292-339: one call of the scanner callback on the next upstream line.
StreamEvent(events) ==
    /\ pc = "stream"
    /\ Len(seen) < MaxEvents
    /\ \E difyResponse \in events :
        /\ seen' = Append(seen, difyResponse)
        /\ pc' = IF CallbackContinues(difyResponse) THEN "stream" ELSE "streamdone"
        /\ IF ~difyResponse.valid
           THEN UNCHANGED <<usage, responseText, nodeToken, client>>
           ELSE IF difyResponse.event = "message_end"
           THEN usage' = difyResponse.usage /\ UNCHANGED <<responseText, nodeToken, client>>
           ELSE IF difyResponse.event = "error"
           THEN UNCHANGED <<usage, responseText, nodeToken, client>>
           ELSE LET openaiResponse == streamResponseDify2OpenAI(difyResponse, difyDebug)
                    delta == openaiResponse.Choices[1]
                IN  /\ responseText' =
                           IF Len(openaiResponse.Choices) # 0
                           THEN AccumulateText(responseText, GetContentString(delta))
                           ELSE responseText
                    /\ nodeToken' =
                           IF Len(openaiResponse.Choices) # 0 /\ delta.ReasoningContent # <<>>
                           THEN nodeToken + 1
                           ELSE nodeToken
                    /\ client' = Append(client, ObjectData(openaiResponse, clientOk))
                    /\ usage' = usage
    /\ UNCHANGED <<reqVars, poolVars, bodyVars, ledgerVars, settleVars, promptTokens, priceData, shouldPre,
                   preConsumedQuota, userQuota, openaiErr, resp, refund, calls,
                   difyDebug, clientOk, bodyClosed>>

\* The scanner reaches the end of the upstream body, or gives up, with no terminal event.
UpstreamClose ==
    /\ pc = "stream"
    /\ pc' = "streamdone"
    /\ UNCHANGED <<reqVars, poolVars, bodyVars, ledgerVars, settleVars, streamVars, promptTokens,
                   priceData, shouldPre, preConsumedQuota, userQuota, openaiErr, resp, usage,
                   refund, calls>>

\* The client goes away: every later write on the connection fails.
ClientDisconnect ==
    /\ pc = "stream"
    /\ clientOk
    /\ clientOk' = FALSE
    /\ UNCHANGED <<reqVars, poolVars, bodyVars, ledgerVars, settleVars, pc, promptTokens, priceData,
                   shouldPre, preConsumedQuota, userQuota, openaiErr, resp, usage, refund,
                   calls, difyDebug, seen, responseText, nodeToken, client, bodyClosed>>

WriteFailed == \E i \in 1..Len(client) : ~client[i].ok
StoppedBy ==
    IF seen # <<>> /\ ~CallbackContinues(seen[Len(seen)]) THEN seen[Len(seen)].event ELSE "close"

\* Lines 340-356, and lines 251-258 of TextHelper taking the result.
StreamFinish ==
    /\ pc = "streamdone"
    /\ client' = IF DoneWritten(StoppedBy) THEN Append(client, Done(clientOk)) ELSE client
    /\ bodyClosed' = TRUE
    /\ usage' = FinalUsage(usage, promptTokens, responseText, nodeToken)
    /\ LET err == StreamHandlerErr(StoppedBy, WriteFailed)
       IN  IF err # NoErr THEN Return(err)
           ELSE pc' = "settle" /\ UNCHANGED <<openaiErr, refund>>
    /\ UNCHANGED <<reqVars, poolVars, bodyVars, ledgerVars, settleVars, promptTokens, priceData,
                   shouldPre, preConsumedQuota, userQuota, resp, calls,
                   difyDebug, seen, responseText, nodeToken, clientOk>>

\* A streaming response handled by difyStreamHandler, after pre-consumption and a 200.
InitStream ==
    /\ pc = "stream"
    /\ textRequest \in {r \in ReqSmall : getAndValidateTextRequest(r) = "" /\ r.mode = "chat"}
    /\ InitPreConsumed
    /\ promptTokens = MaxTokens
    /\ priceData = RatioPrice(RatioScale, RatioScale, RatioScale, RatioScale, RatioScale)
    /\ openaiErr = NoErr
    /\ resp = StatusOK
    /\ usage = NoUsage
    /\ quota = 0
    /\ usedQuota = 0
    /\ channelUsedQuota = 0
    /\ settled = "none"
    /\ refund = "none"
    /\ consumeLog = <<>>
    /\ calls = <<"Validate", "ModelMapped", "PromptTokens", "ModelPrice", "preConsumeQuota",
                 "GetAdaptor", "BuildBody", "DoRequest", "DoResponse">>
    /\ difyDebug \in BOOLEAN
    /\ seen = <<>>
    /\ responseText = <<>>
    /\ nodeToken = 0
    /\ client = <<>>
    /\ clientOk = TRUE
    /\ bodyClosed = FALSE
    /\ InitBodyVars
    /\ InitPoolVars

\* Request conversion and body build alone, over message lists and override maps.
InitConvert ==
    /\ pc = "body"
    /\ textRequest \in {r \in ReqSmall : getAndValidateTextRequest(r) = ""}
    /\ InitPreConsumed
    /\ promptTokens = MaxTokens
    /\ priceData = RatioPrice(RatioScale, RatioScale, RatioScale, RatioScale, RatioScale)
    /\ openaiErr = NoErr
    /\ resp = NilResp
    /\ usage = NoUsage
    /\ quota = 0
    /\ usedQuota = 0
    /\ channelUsedQuota = 0
    /\ settled = "none"
    /\ refund = "none"
    /\ consumeLog = <<>>
    /\ calls = <<"Validate", "ModelMapped", "PromptTokens", "ModelPrice", "preConsumeQuota",
                 "GetAdaptor">>
    /\ InitStreamVars
    /\ chatMessages \in {ms \in MessageLists : (ms = <<>>) = (textRequest.messages = 0)}
    /\ paramOverride \in Overrides
    /\ requestBody = NoBody
    /\ tempFiles = <<>>
    /\ InitPoolVars

SpecConvert == InitConvert /\ [][BuildBody]_vars

NextStream ==
    \/ StreamEvent(EventsAll)
    \/ UpstreamClose
    \/ ClientDisconnect
    \/ StreamFinish

SpecStream == InitStream /\ [][NextStream]_vars

NextRelayStream ==
    \/ StreamEvent(EventsFew)
    \/ UpstreamClose
    \/ ClientDisconnect
    \/ StreamFinish
    \/ Settle

SpecRelayStream == InitStream /\ [][NextRelayStream]_vars

\* ------------------------------------------- preConsumeQuota, call by call
\* Several requests of one user and one token run preConsumeQuota at once;
\* each call on the store is one step and is atomic.
NumHandlers == 2

Handler(want) == [pc |-> "read", want |-> want, userQuota |-> 0, pre |-> 0, err |-> NoErr]
Fail(h, code) ==
    [h EXCEPT !.pc = "done", !.pre = 0, !.userQuota = 0,
              !.err = OpenAIErrorWrapper("pre-consume failed", code, PreConsumeStatus(code))]
otherVars ==
    <<reqVars, streamVars, bodyVars, settleVars, pc, promptTokens, priceData, shouldPre,
      preConsumedQuota, userQuota, openaiErr, resp, usage, refund, calls>>

\* Lines 311-337: model.GetUserQuota, the balance check and the trust decision.
GetUserQuota(i) ==
    /\ handlers[i].pc = "read"
    /\ \E readOk \in BOOLEAN :
        LET h == handlers[i]
            pre == IF Trusted(userLedger, tokenUnlimited, tokenStart, h.want) THEN 0 ELSE h.want
        IN  handlers' = [handlers EXCEPT ![i] =
                IF ~readOk THEN Fail(h, "get_user_quota_failed")
                ELSE IF InsufficientUserQuota(userLedger, h.want)
                THEN Fail(h, "insufficient_user_quota")
                ELSE [h EXCEPT !.userQuota = userLedger, !.pre = pre,
                               !.pc = IF pre > 0 THEN "token" ELSE "done"]]
    /\ UNCHANGED <<otherVars, ledgerVars>>

\* Lines 340-344: service.PreConsumeTokenQuota.
DebitToken(i) ==
    /\ handlers[i].pc = "token"
    /\ \E tokOk \in BOOLEAN :
        /\ tokenLedger' = PreConsumeTokenQuota(tokenLedger, handlers[i].pre, tokOk)
        /\ handlers' = [handlers EXCEPT ![i] =
                IF tokOk THEN [@ EXCEPT !.pc = "user"]
                ELSE Fail(@, "pre_consume_token_quota_failed")]
    /\ UNCHANGED <<otherVars, userLedger>>

\* Lines 345-350: model.DecreaseUserQuota.
DebitUser(i) ==
    /\ handlers[i].pc = "user"
    /\ \E userOk \in BOOLEAN :
        /\ userLedger' = DecreaseUserQuota(userLedger, handlers[i].pre, userOk)
        /\ handlers' = [handlers EXCEPT ![i] =
                IF userOk THEN [@ EXCEPT !.pc = "done"]
                ELSE Fail(@, "decrease_user_quota_failed")]
    /\ UNCHANGED <<otherVars, tokenLedger>>

InitConcurrent ==
    /\ pc = "preconsume"
    /\ textRequest \in {r \in ReqSmall : getAndValidateTextRequest(r) = "" /\ r.mode = "chat"}
    /\ tokenUnlimited \in BOOLEAN
    /\ userStart \in UserBalances
    /\ tokenStart \in TokenBalances
    /\ userLedger = userStart
    /\ tokenLedger = tokenStart
    /\ InitStreamVars
    /\ InitBodyVars
    /\ promptTokens = MaxTokens
    /\ priceData = RatioPrice(RatioScale, RatioScale, RatioScale, RatioScale, RatioScale)
    /\ shouldPre = 1
    /\ preConsumedQuota = 0
    /\ userQuota = 0
    /\ openaiErr = NoErr
    /\ resp = NilResp
    /\ usage = NoUsage
    /\ quota = 0
    /\ usedQuota = 0
    /\ channelUsedQuota = 0
    /\ settled = "none"
    /\ refund = "none"
    /\ consumeLog = <<>>
    /\ calls = <<"Validate", "ModelMapped", "PromptTokens", "ModelPrice">>
    /\ handlers \in [1..NumHandlers -> {Handler(want) : want \in 0..MaxPreConsume}]

NextConcurrent ==
    \E i \in 1..NumHandlers : GetUserQuota(i) \/ DebitToken(i) \/ DebitUser(i)

SpecConcurrent == InitConcurrent /\ [][NextConcurrent]_vars

\* ------------------------------------------------------------------ claims
Called(op) == \E i \in DOMAIN calls : calls[i] = op
Count(op) == Cardinality({i \in DOMAIN calls : calls[i] = op})
Returned == pc = "returned"
\* preConsumeQuota returned no error: the handler went on to the adapter lookup.
PreConsumeSucceeded == Called("GetAdaptor")
LedgersAtStart == userLedger = userStart /\ tokenLedger = tokenStart
TwoPow30 == 1024 * 1024 * 1024

\* C1: when preConsumeQuota succeeded and a later step of TextHelper returned an
\* error, then once the refund has been applied (or when nothing was pre-consumed
\* and no refund is due) the user and token balances are those of before
\* pre-consume. A refund still queued, or one whose ledger post failed and was
\* only logged, is not a refund that has run.
C1_RefundRestoresLedgers ==
    (Returned /\ PreConsumeSucceeded /\ openaiErr # NoErr /\ refund \notin {"pending", "failed"})
        => LedgersAtStart

C1_Witness ==
    /\ Returned /\ PreConsumeSucceeded /\ openaiErr # NoErr
    /\ preConsumedQuota > 0 /\ refund = "done" /\ LedgersAtStart

\* C2: a request that completes with final quota Q, its settlement delta applied
\* (or zero), has been debited exactly Q on the user ledger and on the token
\* ledger, whatever was pre-consumed.
C2_NetChargeIsFinalQuota ==
    (Returned /\ openaiErr = NoErr /\ settled \in {"posted", "nodelta"})
        => /\ userStart - userLedger = quota
           /\ tokenStart - tokenLedger = quota

C2_Witness ==
    /\ Returned /\ openaiErr = NoErr /\ settled = "posted"
    /\ preConsumedQuota > quota /\ quota > 0
    /\ userStart - userLedger = quota

\* C3: at every return of TextHelper, a request that debited a ledger in
\* pre-consume has been settled by post-consume or handed to the refund hook,
\* exactly one of the two.
C3_SettledXorRefunded ==
    Returned =>
        /\ ~(settled # "none" /\ refund # "none")
        /\ (preConsumedQuota > 0 \/ ~LedgersAtStart) => (settled # "none" \/ refund # "none")

\* C4: in ratio pricing, a usage with at least one token and a non-zero
\* model-ratio x group-ratio is charged a rounded quota of at least 1.
C4_NonFreeCostsAtLeastOne ==
    (Returned /\ ~priceData.UsePrice /\ usage.PromptTokens + usage.CompletionTokens >= 1
        /\ priceData.ModelRatio * priceData.GroupRatio # 0)
        => quota >= 1

\* A request that passes every check other than the max-tokens check.
OtherwiseValid(r) == getAndValidateTextRequest([r EXCEPT !.maxTokens = 0]) = ""
Validated == Called("Validate")
Accepted == Validated /\ openaiErr = NoErr

\* C5 as stated: max-tokens = 2^30 is accepted and 2^30 + 1 is rejected.
C5_ThresholdIsTwoPow30 ==
    (Validated /\ OtherwiseValid(textRequest)) =>
        /\ textRequest.maxTokens = TwoPow30 => Accepted
        /\ textRequest.maxTokens = TwoPow30 + 1 => ~Accepted

\* C5 amended: max-tokens = 2^30 - 1 is accepted and 2^30 is rejected with
\* "max_tokens is invalid": the rejection threshold is max-tokens > 2^30 - 1.
C5_ThresholdIsMaxInt32Half ==
    (Validated /\ OtherwiseValid(textRequest)) =>
        /\ textRequest.maxTokens <= TwoPow30 - 1 => Accepted
        /\ textRequest.maxTokens >= TwoPow30 =>
              /\ openaiErr.status = StatusBadRequest
              /\ openaiErr.msg = "max_tokens is invalid"

C5_Witness ==
    /\ Validated /\ OtherwiseValid(textRequest)
    /\ textRequest.maxTokens = TwoPow30
    /\ openaiErr.msg = "max_tokens is invalid"

\* C6: when the balance read by preConsumeQuota is <= 0 or below the requested
\* amount, it returns 403 insufficient_user_quota and no ledger is debited.
C6_InsufficientRejected ==
    (Called("preConsumeQuota") /\ openaiErr.code # "get_user_quota_failed"
        /\ (userStart <= 0 \/ userStart < shouldPre))
        => /\ Returned
           /\ openaiErr.code = "insufficient_user_quota"
           /\ openaiErr.status = StatusForbidden
           /\ LedgersAtStart

C6_Witness ==
    /\ Called("preConsumeQuota") /\ userStart > 0 /\ userStart < shouldPre
    /\ openaiErr.code = "insufficient_user_quota" /\ LedgersAtStart

\* C7: an accepted pre-consume returns 0 when the user balance exceeds 100 x the
\* requested amount and the token is unlimited or its balance exceeds 100 x the
\* requested amount, and the requested amount otherwise; both ledgers are
\* debited by the returned amount; and a trusted request whose settlement is
\* applied ends with the user balance lowered by the final quota.
C7_TrustHeuristic ==
    LET trust == /\ userStart > 100 * shouldPre
                 /\ (tokenUnlimited \/ tokenStart > 100 * shouldPre)
    IN  /\ PreConsumeSucceeded =>
              preConsumedQuota = IF trust THEN 0 ELSE shouldPre
        /\ pc = "adaptor" =>
              /\ userLedger = userStart - preConsumedQuota
              /\ tokenLedger = tokenStart - preConsumedQuota
        /\ (Returned /\ openaiErr = NoErr /\ trust /\ settled \in {"posted", "nodelta"})
              => userLedger = userStart - quota

C7_Witness ==
    /\ Returned /\ openaiErr = NoErr /\ settled = "posted"
    /\ shouldPre > 0 /\ preConsumedQuota = 0 /\ tokenUnlimited
    /\ quota > 0 /\ userLedger = userStart - quota

\* C8: a usage with prompt + completion = 0 is charged 0 in either pricing mode
\* and with tool charges, leaves the used-quota counters alone, and, its
\* settlement delta applied, leaves both ledgers where they started.
C8_ZeroTokenGuard ==
    (Called("postConsumeQuota") /\ usage.PromptTokens + usage.CompletionTokens = 0)
        => /\ quota = 0
           /\ usedQuota = 0 /\ channelUsedQuota = 0
           /\ settled # "failed" => LedgersAtStart

C8_Witness ==
    /\ Called("postConsumeQuota") /\ usage.PromptTokens + usage.CompletionTokens = 0
    /\ priceData.UsePrice /\ priceData.ModelPrice > 0
    /\ preConsumedQuota > 0 /\ settled = "posted" /\ LedgersAtStart

\* C9: DoResponse and post-consume are reached only with a nil response or
\* status 200; a non-200 status returns the mapped error, queues the refund of
\* what was pre-consumed, and the applied refund restores both ledgers.
C9_Non200Refunded ==
    /\ (pc \in {"doresponse", "settle"} \/ Called("DoResponse") \/ Called("postConsumeQuota"))
          => resp \in {NilResp, StatusOK}
    /\ (pc \notin {"dorequest", "status"} /\ Called("DoRequest")
          /\ resp \notin {NilResp, StatusOK})
          => /\ Returned /\ openaiErr.code = "upstream_error"
             /\ settled = "none"
             /\ preConsumedQuota > 0 => refund # "none"
             /\ refund = "pending" =>
                   /\ userLedger = userStart - preConsumedQuota
                   /\ tokenLedger = tokenStart - preConsumedQuota
             /\ refund \in {"none", "done"} => LedgersAtStart

C9_Witness ==
    /\ Returned /\ resp = 429 /\ openaiErr.code = "upstream_error"
    /\ preConsumedQuota > 0 /\ refund = "done" /\ LedgersAtStart

\* C10: once DoResponse has returned without error the handler returns nil
\* after exactly one post-consume on the returned usage, also when the ledger
\* post of the delta failed, and no refund is ever queued.
C10_SettlementNeverFailsRequest ==
    /\ pc = "settle" => (openaiErr = NoErr /\ refund = "none")
    /\ (Returned /\ Called("DoResponse") /\ openaiErr.code \notin DifyHandlerSteps \ {""})
          => /\ openaiErr = NoErr
             /\ Count("postConsumeQuota") = 1
             /\ Len(consumeLog) = 1
             /\ consumeLog[1].prompt = usage.PromptTokens
             /\ consumeLog[1].completion = usage.CompletionTokens
             /\ refund = "none"

C10_Witness ==
    /\ Returned /\ Called("DoResponse") /\ openaiErr = NoErr
    /\ settled = "failed" /\ refund = "none" /\ Len(consumeLog) = 1

\* ---------------------------------------------------- claims: streaming
IsTerminal(e) == e.valid /\ e.event \in {"message_end", "error"}
IsForwarded(e) == e.valid /\ e.event \notin {"message_end", "error"}
IsChunk(w) == w.kind = "chunk"
IsDone(w) == w.kind = "done"
ChunkWrites == SelectSeq(client, IsChunk)
DoneWrites == SelectSeq(client, IsDone)
HandlerReturned == bodyClosed

\* The chunks the events of evs translate to, in order.
ExpectedChunks(evs) ==
    LET f == SelectSeq(evs, IsForwarded)
    IN  [i \in 1..Len(f) |-> streamResponseDify2OpenAI(f[i], difyDebug).Choices]
WrittenChunks == [i \in 1..Len(ChunkWrites) |-> ChunkWrites[i].choices]

\* The content strings of a sequence of chunks, concatenated in order.
RECURSIVE ContentOf(_)
ContentOf(chunks) ==
    IF chunks = <<>> THEN <<>>
    ELSE GetContentString(Head(chunks)[1]) \o ContentOf(Tail(chunks))

HasReasoning(choices) == choices[1].ReasoningContent # <<>>
ReasoningWrites == SelectSeq(WrittenChunks, HasReasoning)
IsTrace(e) == e.valid /\ (IsWorkflowEvent(e.event) \/ IsNodeEvent(e.event))

\* The usage captured from message_end, zero when there was none.
CapturedUsage ==
    IF seen # <<>> /\ seen[Len(seen)].valid /\ seen[Len(seen)].event = "message_end"
    THEN seen[Len(seen)].usage
    ELSE NoUsage

\* C11: the first message_end or error event ends the scan: it is the last
\* event handled, the chunks written and the accumulated text are those of
\* the events before it, and a message_end usage with non-zero total-tokens
\* gives the returned prompt-tokens and total-tokens.
C11_TerminalEventStopsScan ==
    \A i \in 1..Len(seen) :
        IsTerminal(seen[i]) =>
            /\ i = Len(seen)
            /\ pc # "stream"
            /\ WrittenChunks = ExpectedChunks(SubSeq(seen, 1, i - 1))
            /\ responseText = ContentOf(ExpectedChunks(SubSeq(seen, 1, i - 1)))
            /\ (HandlerReturned /\ seen[i].event = "message_end"
                    /\ seen[i].usage.TotalTokens # 0)
                  => /\ usage.PromptTokens = seen[i].usage.PromptTokens
                     /\ usage.TotalTokens = seen[i].usage.TotalTokens

C11_Witness ==
    /\ HandlerReturned
    /\ Len(seen) = MaxEvents
    /\ seen[Len(seen)].event = "message_end"
    /\ CapturedUsage.TotalTokens # 0
    /\ responseText # <<>>
    /\ nodeToken > 0
    /\ usage.PromptTokens = CapturedUsage.PromptTokens

\* C12: when no usage with non-zero total-tokens was captured, the returned
\* usage has prompt-tokens = info.PromptTokens and completion-tokens = the
\* token count of the accumulated text plus the number of reasoning deltas
\* written, which is one per workflow_*/node_* event in debug mode and 0
\* otherwise.
C12_SynthesizedUsage ==
    /\ nodeToken = Len(ReasoningWrites)
    /\ nodeToken = IF difyDebug THEN Len(SelectSeq(seen, IsTrace)) ELSE 0
    /\ (HandlerReturned /\ CapturedUsage.TotalTokens = 0)
          => /\ usage.PromptTokens = promptTokens
             /\ usage.CompletionTokens = CountTextToken(ContentOf(WrittenChunks)) + nodeToken

C12_Witness ==
    /\ HandlerReturned
    /\ StoppedBy = "error"
    /\ difyDebug
    /\ nodeToken > 0
    /\ responseText # <<>>
    /\ usage.PromptTokens = promptTokens
    /\ usage.CompletionTokens = Len(responseText) + nodeToken

\* C13: every usage returned by difyStreamHandler has total-tokens =
\* prompt-tokens + completion-tokens.
C13_TotalIsSum ==
    HandlerReturned => usage.TotalTokens = usage.PromptTokens + usage.CompletionTokens

\* C14: exactly one [DONE] marker is written, after every chunk and before
\* the handler returns, whichever way the scan ended.
C14_ExactlyOneDone ==
    /\ ~HandlerReturned => DoneWrites = <<>>
    /\ HandlerReturned
          => /\ Len(DoneWrites) = 1
             /\ client[Len(client)].kind = "done"

C14_Witness ==
    /\ HandlerReturned
    /\ StoppedBy = "error"
    /\ Len(ChunkWrites) >= 2
    /\ Len(DoneWrites) = 1
    /\ client[Len(client)].kind = "done"

\* C15: chunks are written in the order of the events that produced them,
\* content and reasoning deltas alike, and the accumulated text is the
\* concatenation in that order of the content strings of the chunks written.
C15_ChunksInEventOrder ==
    /\ WrittenChunks = ExpectedChunks(seen)
    /\ responseText = ContentOf(WrittenChunks)

C15_Witness ==
    /\ Len(ChunkWrites) = MaxEvents
    /\ seen[1].event = "message"
    /\ seen[2].event = "node_finished"
    /\ seen[3].event = "agent_message"
    /\ ReasoningWrites # <<>>
    /\ responseText = <<"a", "b", "c">>

\* C16: an event whose name is none of message, agent_message, workflow_*,
\* node_*, message_end, error writes no chunk and leaves the accumulated
\* text, the node-token counter and the captured usage unchanged.
C16_UnknownEventIgnored ==
    [][(seen' # seen /\ seen'[Len(seen')].valid
            /\ seen'[Len(seen')].event \in {e.event : e \in OtherEvents})
          => UNCHANGED <<client, responseText, nodeToken, usage>>]_vars

\* --------------------------------------------------- claims: conversion
\* The body was built by conversion, not passed through.
Converted == pc = "dorequest" /\ requestBody # RawBody(chatMessages)
BodyMap == Unmarshal(requestBody)

IsTextPart(p) == p.type = "text"
IsLocalImage(p) == p.type = "image_url" /\ ~p.remote
IsRemoteImage(p) == p.type = "image_url" /\ p.remote
UploadSucceeded(p) == IsLocalImage(p) /\ p.upload.fail = "" /\ p.upload.status \in 200..299
IsLocalFile(f) == f.TransferMode = "local_file"
IsRemoteFile(f) == f.TransferMode = "remote_url"

\* The parts of the messages that are parsed part by part, in order.
RECURSIVE PartsOf(_)
PartsOf(messages) ==
    IF messages = <<>> THEN <<>>
    ELSE (IF Head(messages).role \in {"system", "assistant"} THEN <<>>
          ELSE Head(messages).content) \o PartsOf(Tail(messages))

\* The texts folded into the query, each with the role of its message, in order.
RECURSIVE TextUnits(_)
TextUnits(messages) ==
    IF messages = <<>> THEN <<>>
    ELSE LET m == Head(messages)
             texts == SelectSeq(m.content, IsTextPart)
             units == IF m.role \in {"system", "assistant"}
                      THEN <<[role |-> m.role, text |-> m.content[1].text]>>
                      ELSE [i \in 1..Len(texts) |-> [role |-> m.role, text |-> texts[i].text]]
         IN  units \o TextUnits(Tail(messages))

OwnLabel(role) ==
    CASE role = "system" -> "SYSTEM: \n"
      [] role = "assistant" -> "ASSISTANT: \n"
      [] role = "user" -> "USER: \n"
      [] role = "tool" -> "TOOL: \n"
LabelOrUser(role) ==
    CASE role = "system" -> "SYSTEM: \n"
      [] role = "assistant" -> "ASSISTANT: \n"
      [] OTHER -> "USER: \n"

\* C17: a local image whose upload fails in any way, a non-success HTTP status
\* included, adds no file; every text block and every other file is present,
\* and each local_file entry carries the id of a successful upload.
C17_FailedUploadSkipped ==
    (Converted /\ "files" \notin DOMAIN paramOverride /\ "query" \notin DOMAIN paramOverride)
      => LET parts == PartsOf(chatMessages)
             files == BodyMap["files"].val
             local == SelectSeq(files, IsLocalFile)
             good == SelectSeq(parts, UploadSucceeded)
         IN  /\ Len(local) = Len(good)
             /\ \A i \in 1..Len(local) : local[i].UploadFileId = good[i].upload.id
             /\ Len(SelectSeq(files, IsRemoteFile)) = Len(SelectSeq(parts, IsRemoteImage))
             /\ Len(BodyMap["query"].val) = 3 * Len(TextUnits(chatMessages))

\* C18 as stated: blocks appear in message order and part order, and each
\* block carries the label of its own message's role, for every role.
C18_OwnRoleLabel ==
    Converted =>
        LET q == BodyMap["query"].val
            u == TextUnits(chatMessages)
        IN  /\ Len(q) = 3 * Len(u)
            /\ \A i \in 1..Len(u) :
                  /\ q[3 * i - 2] = OwnLabel(u[i].role)
                  /\ q[3 * i - 1] = u[i].text
                  /\ q[3 * i] = "\n"

\* C18 amended: blocks appear in message order and part order; a system
\* message is labelled SYSTEM, an assistant message ASSISTANT, and a message
\* of any other role USER.
C18_RoleLabelOrUser ==
    Converted =>
        LET q == BodyMap["query"].val
            u == TextUnits(chatMessages)
        IN  /\ Len(q) = 3 * Len(u)
            /\ \A i \in 1..Len(u) :
                  /\ q[3 * i - 2] = LabelOrUser(u[i].role)
                  /\ q[3 * i - 1] = u[i].text
                  /\ q[3 * i] = "\n"

C18_Witness ==
    /\ Converted
    /\ Len(chatMessages) = MaxMessages
    /\ chatMessages[1].role = "assistant"
    /\ chatMessages[2].role = "user"
    /\ Len(SelectSeq(chatMessages[2].content, IsTextPart)) = 2
    /\ BodyMap["query"].val = <<"ASSISTANT: \n", "a1", "\n", "USER: \n", "u2", "\n", "USER: \n", "u3", "\n">>

\* C19: the override merge is applied only to a converted body and only when
\* the override map is non-empty; every override key then takes the override
\* value, every other top-level key keeps its value, and applying the same
\* override to the merged body again yields the same bytes.
C19_OverrideMerge ==
    pc = "dorequest" =>
        LET converted == MarshalStruct(requestOpenAI2Dify(chatMessages, paramOverride))
            before == Unmarshal(converted)
        IN  \/ requestBody = RawBody(chatMessages)
            \/ DOMAIN paramOverride = {} /\ requestBody = converted
            \/ /\ DOMAIN paramOverride # {}
               /\ DOMAIN BodyMap = DOMAIN before \cup DOMAIN paramOverride
               /\ \A k \in DOMAIN paramOverride : BodyMap[k] = paramOverride[k]
               /\ \A k \in DOMAIN before \ DOMAIN paramOverride : BodyMap[k] = before[k]
               /\ MarshalMap(ParamOverrideMerge(BodyMap, paramOverride)) = requestBody

C19_Witness ==
    /\ Converted
    /\ DOMAIN paramOverride = {"inputs", "conversation_id"}
    /\ chatMessages # <<>>
    /\ BodyMap["conversation_id"] = JString("c1")
    /\ BodyMap["inputs"] = JObject({<<"lang", "en">>})
    /\ BodyMap["response_mode"] = JString("streaming")
    /\ requestBody[1][1] = "auto_generate_name"

\* ------------------------------------------- claims: stream and settlement
\* C20: when a client write has failed, difyStreamHandler still closes the
\* upstream body and returns its usage with no error, and TextHelper settles
\* on that usage; no refund is queued, and the request never returns without
\* its settlement.
C20_DisconnectStillSettles ==
    /\ (WriteFailed /\ pc \in {"settle", "returned"})
          => /\ bodyClosed
             /\ openaiErr = NoErr
             /\ refund = "none"
             /\ usage = FinalUsage(CapturedUsage, promptTokens, responseText, nodeToken)
    /\ (WriteFailed /\ Returned)
          => /\ settled # "none"
             /\ Count("postConsumeQuota") = 1
             /\ Len(consumeLog) = 1
             /\ consumeLog[1].prompt = usage.PromptTokens
             /\ consumeLog[1].completion = usage.CompletionTokens

C20_Witness ==
    /\ Returned
    /\ ~clientOk
    /\ \E i \in 1..Len(client) : client[i].kind = "chunk" /\ client[i].ok
    /\ \E i \in 1..Len(client) : client[i].kind = "chunk" /\ ~client[i].ok
    /\ bodyClosed
    /\ openaiErr = NoErr
    /\ settled = "posted"
    /\ refund = "none"

\* ---------------------------------------------------- claims: acceptance
\* C21: every accepted request has a non-empty model and a non-empty payload
\* field for its relay mode: a message for chat, a prompt for completions,
\* an input for moderations and for embeddings, an instruction for edits.
C21_AcceptedHasPayload ==
    Accepted =>
        /\ textRequest.model # ""
        /\ textRequest.mode = "chat" => textRequest.messages >= 1
        /\ textRequest.mode = "completions" => textRequest.prompt # ""
        /\ textRequest.mode \in {"moderations", "embeddings"}
              => textRequest.input \notin {"nil", ""}
        /\ textRequest.mode = "edits" => textRequest.instruction # ""

\* --------------------------------------------------- claims: pre-consume
\* TextHelper returned the error of preConsumeQuota (line 137).
PreConsumeFailed == Returned /\ calls # <<>> /\ calls[Len(calls)] = "preConsumeQuota"
PreConsumeCodes ==
    {"get_user_quota_failed", "insufficient_user_quota", "pre_consume_token_quota_failed",
     "decrease_user_quota_failed"}

\* C22 as stated: every failure of the pre-consume step is returned as 403.
C22_PreConsumeFailureIsForbidden ==
    PreConsumeFailed => openaiErr.status = StatusForbidden

\* C22 amended: an insufficient balance and a failed token debit are returned
\* as 403; a failed balance read and a failed user debit are returned as 500.
C22_PreConsumeFailureStatus ==
    PreConsumeFailed =>
        /\ openaiErr.code \in PreConsumeCodes
        /\ openaiErr.code \in {"insufficient_user_quota", "pre_consume_token_quota_failed"}
              => openaiErr.status = StatusForbidden
        /\ openaiErr.code \in {"get_user_quota_failed", "decrease_user_quota_failed"}
              => openaiErr.status = StatusInternalServerError

C22_Witness ==
    /\ PreConsumeFailed
    /\ openaiErr.code = "get_user_quota_failed"
    /\ openaiErr.status = StatusInternalServerError
    /\ LedgersAtStart

\* C23: when preConsumeQuota returns an error neither ledger has changed; a
\* token debit followed by a failed user debit is not left in place.
C23_NoLeakOnFailure ==
    PreConsumeFailed => LedgersAtStart

\* C24: with two or more handlers in preConsumeQuota for the same user, the
\* pre-consume debits never take the user balance below zero.
C24_BalanceNeverNegative ==
    userLedger >= 0

\* ------------------------------------------------------ claims: ordering
IsStep(op) == op # "CheckSensitive"
\* The operations invoked so far, the optional sensitive-word scan left out.
Steps == SelectSeq(calls, IsStep)
StepsToDoRequest ==
    <<"Validate", "ModelMapped", "PromptTokens", "ModelPrice", "preConsumeQuota",
      "GetAdaptor", "BuildBody", "DoRequest">>
EarlyCodes ==
    {"invalid_text_request", "sensitive_words_detected", "model_mapped_error",
     "count_token_messages_failed", "model_price_error"}

\* C25: the upstream request is sent only after validation, model mapping,
\* prompt-token resolution, pricing and pre-consume have succeeded, in that
\* order; a failure of validation, the sensitive-word scan, model mapping,
\* token counting or pricing returns with no ledger write and no upstream call.
C25_DoRequestAfterPreConsume ==
    /\ pc = "dorequest" => openaiErr = NoErr
    /\ Called("DoRequest")
          => /\ Len(Steps) >= Len(StepsToDoRequest)
             /\ SubSeq(Steps, 1, Len(StepsToDoRequest)) = StepsToDoRequest
             /\ Called("CheckSensitive") => calls[2] = "CheckSensitive"
    /\ (Returned /\ openaiErr.code \in EarlyCodes)
          => /\ LedgersAtStart
             /\ ~Called("preConsumeQuota")
             /\ ~Called("DoRequest")
             /\ settled = "none"
             /\ refund = "none"

C25_Witness ==
    /\ pc = "status"
    /\ Called("CheckSensitive")
    /\ calls[Len(calls)] = "DoRequest"
    /\ preConsumedQuota > 0
    /\ userLedger = userStart - preConsumedQuota

\* C26: when the stream ends with an error event the handler returns no
\* error and the usage synthesized from info.PromptTokens and the text
\* accumulated so far; TextHelper settles on that usage and queues no refund.
\* However the scan ended, the streaming handler returns no error.
C26_ErrorEventSettles ==
    /\ bodyClosed => (openaiErr = NoErr /\ refund = "none")
    /\ (StoppedBy = "error" /\ bodyClosed)
          => /\ usage.PromptTokens = promptTokens
             /\ usage.CompletionTokens = CountTextToken(responseText) + nodeToken
             /\ usage.TotalTokens = promptTokens + CountTextToken(responseText)
    /\ (StoppedBy = "error" /\ Returned)
          => /\ settled # "none"
             /\ Count("postConsumeQuota") = 1
             /\ Len(consumeLog) = 1
             /\ consumeLog[1].prompt = promptTokens
             /\ consumeLog[1].completion = CountTextToken(responseText) + nodeToken

C26_Witness ==
    /\ Returned
    /\ StoppedBy = "error"
    /\ responseText = <<"a", "b">>
    /\ usage.CompletionTokens = Len(responseText)
    /\ openaiErr = NoErr
    /\ settled = "posted"
    /\ refund = "none"

\* C27: for every relay mode the validator accepts, prompt-token resolution
\* fails only when the token counter fails: a validated request never
\* returns count_token_messages_failed for an unknown relay mode.
C27_NoUnknownRelayMode ==
    (Returned /\ Called("PromptTokens") /\ openaiErr.code = "count_token_messages_failed")
        => (textRequest.mode \in RelayModes /\ openaiErr.msg = "count failed")

\* The charge as the pricing rule words it, numerator over DecScale: the prompt
\* quota by image tokens when there are any and by cached tokens otherwise,
\* plus the weighted completion, times both ratios.
RatioCharge ==
    LET p == priceData
        promptQuota ==
            IF usage.ImageTokens > 0
            THEN (usage.PromptTokens - usage.ImageTokens) * RatioScale
                     + usage.ImageTokens * p.ImageRatio
            ELSE (usage.PromptTokens - usage.CachedTokens) * RatioScale
                     + usage.CachedTokens * p.CacheRatio
    IN  (promptQuota + usage.CompletionTokens * p.CompletionRatio)
            * p.ModelRatio * p.GroupRatio

\* The tool charges of the settled call, numerator over DecScale.
ToolCharges ==
    LET t == consumeLog[1].tools
    IN  ToolQuota(t.webPrice, t.webCalls, priceData.GroupRatio)
            + ToolQuota(t.filePrice, t.fileCalls, priceData.GroupRatio)

\* A settlement in ratio pricing that neither the minimum charge of one unit
\* nor the zero-token guard overrides.
RatioSettled ==
    /\ Returned /\ Called("postConsumeQuota") /\ Len(consumeLog) = 1
    /\ ~priceData.UsePrice
    /\ usage.PromptTokens + usage.CompletionTokens > 0
    /\ (priceData.ModelRatio * priceData.GroupRatio = 0 \/ RatioCharge > 0)

\* C28: in ratio pricing the prompt quota is (prompt - image) + image x
\* image-ratio when image tokens are reported, with no cached-token discount,
\* and (prompt - cached) + cached x cache-ratio when none are; the quota
\* charged is (prompt quota + completion x completion-ratio) x model-ratio x
\* group-ratio plus the tool charges, rounded to an integer.
C28_RatioQuota ==
    RatioSettled => quota = Round0(RatioCharge + ToolCharges, DecScale)

C28_Witness ==
    /\ RatioSettled
    /\ usage.ImageTokens > 0 /\ usage.CachedTokens > 0
    /\ usage.ImageTokens # usage.CachedTokens
    /\ priceData.CacheRatio # RatioScale /\ priceData.ImageRatio # RatioScale
    /\ priceData.ModelRatio * priceData.GroupRatio # 0
    /\ consumeLog[1].tools.webCalls > 0
    /\ quota > ToolCharges \div DecScale

\* C29: every temporary file created by uploadDifyFile for a local image
\* upload is closed and removed by the time uploadDifyFile returns, on every
\* exit after its creation: a failed write, a failed multipart step, a failed
\* request, a failed response read or decode, and success.
C29_TempFilesReleased ==
    \A i \in DOMAIN tempFiles : ~tempFiles[i].open /\ ~tempFiles[i].linked

C29_Witness ==
    /\ Len(tempFiles) = 2
    /\ tempFiles[1].exit = "write_temp"
    /\ tempFiles[2].exit = ""
    /\ \A i \in DOMAIN tempFiles : ~tempFiles[i].open /\ ~tempFiles[i].linked

====
